---- MODULE Spec2Model ----
(***************************************************************************)
(* Resume batch pipeline of HR-Resume-Management:                          *)
(*   process_resume_json_files  (resume_processor.py)  flattening          *)
(*   process_duration_column    (resume_processor.py)  duration engine     *)
(*   upload_resumes             (main_v2.py)           aggregation         *)
(*                                                                         *)
(* Text is modelled character by character: a Python str is a sequence of  *)
(* one-character strings.  A JSON value is a record [t, s] where t is its  *)
(* Python type after json.loads and s the characters of str(value).        *)
(***************************************************************************)
EXTENDS Integers, Sequences, FiniteSets, TLC

(***************************************************************************)
(* Characters                                                              *)
(***************************************************************************)
\* U+2013 EN DASH, one character of a Python str
EnDash == "<en-dash>"
Hyphen == "-"
Space == " "

Digit == {"0", "1", "2", "3", "4", "5", "6", "7", "8", "9"}

UpperSeq ==
  <<"A","B","C","D","E","F","G","H","I","J","K","L","M",
    "N","O","P","Q","R","S","T","U","V","W","X","Y","Z">>

LowerSeq ==
  <<"a","b","c","d","e","f","g","h","i","j","k","l","m",
    "n","o","p","q","r","s","t","u","v","w","x","y","z">>

Letter == {UpperSeq[i] : i \in 1..26} \cup {LowerSeq[i] : i \in 1..26}

\* str.isdigit on one character
IsDigit(c) == c \in Digit

\* regex \s on one character
IsSpace(c) == c = Space

WordChars == Letter \cup Digit \cup {"_"}

\* regex \w on one character
IsWordChar(c) == c \in WordChars

DigitVal(c) ==
  CASE c = "0" -> 0 [] c = "1" -> 1 [] c = "2" -> 2 [] c = "3" -> 3
    [] c = "4" -> 4 [] c = "5" -> 5 [] c = "6" -> 6 [] c = "7" -> 7
    [] c = "8" -> 8 [] c = "9" -> 9

\* int() of a run of decimal digits
RECURSIVE IntOf(_)
IntOf(s) ==
  IF s = <<>> THEN 0
  ELSE 10 * IntOf(SubSeq(s, 1, Len(s) - 1)) + DigitVal(s[Len(s)])

\* str.lower on one character
LowerChar(c) ==
  IF \E i \in 1..26 : UpperSeq[i] = c
  THEN LowerSeq[CHOOSE i \in 1..26 : UpperSeq[i] = c]
  ELSE c

\* str.lower
Lower(s) == [i \in 1..Len(s) |-> LowerChar(s[i])]

\* str.strip(chars): drop leading and trailing characters that are in cs
StripChars(s, cs) ==
  LET keep == {i \in 1..Len(s) : s[i] \notin cs}
      Min(S) == CHOOSE x \in S : \A y \in S : x <= y
      Max(S) == CHOOSE x \in S : \A y \in S : x >= y
  IN  IF keep = {} THEN <<>> ELSE SubSeq(s, Min(keep), Max(keep))

\* str.strip(): whitespace at both ends
Strip(s) == StripChars(s, {Space})

\* c in s
Contains(s, c) == \E i \in 1..Len(s) : s[i] = c

\* s.split(c) for a one-character separator: the segments between
\* consecutive occurrences of c (always at least one segment)
RECURSIVE Split(_, _)
Split(s, c) ==
  IF ~Contains(s, c) THEN <<s>>
  ELSE LET i == CHOOSE k \in 1..Len(s) :
                  s[k] = c /\ \A j \in 1..(k - 1) : s[j] # c
       IN  <<SubSeq(s, 1, i - 1)>> \o Split(SubSeq(s, i + 1, Len(s)), c)

\* ''.join(filter(str.isdigit, s))
DigitsOf(s) == SelectSeq(s, IsDigit)

(***************************************************************************)
(* JSON values as json.loads returns them                                  *)
(***************************************************************************)
\* a str
Str(s) == [t |-> "str", s |-> s, n |-> 0]

\* an int, s its decimal text
Num(s) == [t |-> "num", s |-> s, n |-> 0]

\* None (JSON null)
Null == [t |-> "null", s |-> <<"N","o","n","e">>, n |-> 0]

\* a list of n <= 1 strings, s its first element
List0 == [t |-> "list", s |-> <<>>, n |-> 0]

List1(s) == [t |-> "list", s |-> s, n |-> 1]

\* a key the dict does not have
Absent == [t |-> "absent", s |-> <<>>, n |-> 0]

EmptyStr == Str(<<>>)

\* dict.get(key, ''): the value, the default when the key is absent
GetOrEmpty(v) == IF v.t = "absent" THEN EmptyStr ELSE v

\* str(v)
PyStr(v) ==
  IF v.t = "list"
  THEN IF v.n = 0 THEN <<"[", "]">> ELSE <<"[", "'">> \o v.s \o <<"'", "]">>
  ELSE v.s

\* bool(v)
Truthy(v) ==
  CASE v.t = "str" -> v.s # <<>>
    [] v.t = "num" -> IntOf(DigitsOf(v.s)) # 0
    [] v.t = "list" -> v.n > 0
    [] OTHER -> FALSE

(***************************************************************************)
(* Dates: datetime values reduced to (year, month), the Python None, and   *)
(* the pandas missing values NaT and NaN                                   *)
(***************************************************************************)
NoDate == [k |-> "None", year |-> 0, month |-> 0]

NaT == [k |-> "NaT", year |-> 0, month |-> 0]

Date(y, m) == [k |-> "date", year |-> y, month |-> m]

\* a value of the Calculated_Duration column before line 254: a number of
\* months or the float nan
Months(v) == [nan |-> FALSE, v |-> v]

NaN == [nan |-> TRUE, v |-> 0]

IsLeap(y) == y % 4 = 0 /\ (y % 100 # 0 \/ y % 400 = 0)

DaysInMonth(y, m) ==
  IF m = 2 THEN (IF IsLeap(y) THEN 29 ELSE 28)
  ELSE IF m \in {4, 6, 9, 11} THEN 30 ELSE 31

\* datetime(y, m, d) does not raise ValueError
ValidDate(y, m, d) ==
  /\ y >= 1 /\ y <= 9999
  /\ m >= 1 /\ m <= 12
  /\ d >= 1 /\ d <= DaysInMonth(y, m)

MonthAbbr ==
  <<<<"j","a","n">>,
    <<"f","e","b">>,
    <<"m","a","r">>,
    <<"a","p","r">>,
    <<"m","a","y">>,
    <<"j","u","n">>,
    <<"j","u","l">>,
    <<"a","u","g">>,
    <<"s","e","p">>,
    <<"o","c","t">>,
    <<"n","o","v">>,
    <<"d","e","c">>>>

MonthFull ==
  <<<<"j","a","n","u","a","r","y">>,
    <<"f","e","b","r","u","a","r","y">>,
    <<"m","a","r","c","h">>,
    <<"a","p","r","i","l">>,
    <<"m","a","y">>,
    <<"j","u","n","e">>,
    <<"j","u","l","y">>,
    <<"a","u","g","u","s","t">>,
    <<"s","e","p","t","e","m","b","e","r">>,
    <<"o","c","t","o","b","e","r">>,
    <<"n","o","v","e","m","b","e","r">>,
    <<"d","e","c","e","m","b","e","r">>>>

\* a months dict without an entry: every key gets the default
MonthLookupDefault(key) == 1

\* the months dict of parse_date looked up with a key of at most three
\* characters: only its three-letter keys can be hit; default 1
MonthLookup(key) ==
  IF \E i \in 1..12 : MonthAbbr[i] = key
  THEN CHOOSE i \in 1..12 : MonthAbbr[i] = key
  ELSE 1

\* date_formats, each a sequence of directives and literal characters
DateFormats ==
  << <<"%b", " ", "%Y">>,
     <<"%B", " ", "%Y">>,
     <<"%Y", "-", "%m">>,
     <<"%m", "-", "%Y">>,
     <<"%b", ".", " ", "%Y">>,
     <<"%B", ".", " ", "%Y">>,
     <<"%d", " ", "%b", " ", "%Y">>,
     <<"%d", " ", "%B", " ", "%Y">>,
     <<"%b", " ", "%d", ",", " ", "%Y">>,
     <<"%B", " ", "%d", ",", " ", "%Y">>,
     <<"%Y">>,
     <<"%m", "/", "%Y">>,
     <<"%Y", "/", "%m">> >>

\* s has the characters of w at positions pos .. pos + Len(w) - 1
HasAt(s, pos, w) ==
  /\ pos + Len(w) - 1 <= Len(s)
  /\ \A i \in 1..Len(w) : s[pos + i - 1] = w[i]

AllDigits(s, from, to) ==
  /\ to <= Len(s)
  /\ \A i \in from..to : IsDigit(s[i])

\* The ways one format element can match s from position pos: a set of
\* [next, f, v], next the position after the match, f the field it sets
\* ("" for none) and v its value.  The regular expressions are those
\* _strptime builds: %Y \d\d\d\d, %m 1[0-2]|0[1-9]|[1-9],
\* %d 3[0-1]|[1-2]\d|0[1-9]|[1-9]| [1-9], %b and %B the month names,
\* whitespace \s+, anything else itself.
ElemMatches(e, s, pos) ==
  CASE e = "%Y" ->
         IF AllDigits(s, pos, pos + 3)
         THEN {[next |-> pos + 4, f |-> "Y", v |-> IntOf(SubSeq(s, pos, pos + 3))]}
         ELSE {}
    [] e = "%m" ->
         {[next |-> pos + 2, f |-> "m", v |-> IntOf(SubSeq(s, pos, pos + 1))] :
            x \in {y \in {1} : AllDigits(s, pos, pos + 1)
                               /\ IntOf(SubSeq(s, pos, pos + 1)) \in 1..12}}
         \cup
         {[next |-> pos + 1, f |-> "m", v |-> DigitVal(s[pos])] :
            x \in {y \in {1} : AllDigits(s, pos, pos) /\ s[pos] # "0"}}
    [] e = "%d" ->
         {[next |-> pos + 2, f |-> "d", v |-> IntOf(SubSeq(s, pos, pos + 1))] :
            x \in {y \in {1} : AllDigits(s, pos, pos + 1)
                               /\ IntOf(SubSeq(s, pos, pos + 1)) \in 1..31}}
         \cup
         {[next |-> pos + 1, f |-> "d", v |-> DigitVal(s[pos])] :
            x \in {y \in {1} : AllDigits(s, pos, pos) /\ s[pos] # "0"}}
         \cup
         {[next |-> pos + 2, f |-> "d", v |-> DigitVal(s[pos + 1])] :
            x \in {y \in {1} : pos + 1 <= Len(s) /\ s[pos] = Space
                               /\ IsDigit(s[pos + 1]) /\ s[pos + 1] # "0"}}
    [] e = "%b" ->
         {[next |-> pos + Len(MonthAbbr[i]), f |-> "m", v |-> i] :
            i \in {j \in 1..12 : HasAt(s, pos, MonthAbbr[j])}}
    [] e = "%B" ->
         {[next |-> pos + Len(MonthFull[i]), f |-> "m", v |-> i] :
            i \in {j \in 1..12 : HasAt(s, pos, MonthFull[j])}}
    [] e = " " ->
         {[next |-> pos + k, f |-> "", v |-> 0] :
            k \in {j \in 1..(Len(s) - pos + 1) :
                     \A i \in pos..(pos + j - 1) : IsSpace(s[i])}}
    [] OTHER ->
         IF pos <= Len(s) /\ s[pos] = e
         THEN {[next |-> pos + 1, f |-> "", v |-> 0]}
         ELSE {}

\* The (year, month, day) triples of the matches of fmt[fi..] on s[pos..]
\* that consume s to its end (anything less is "unconverted data remains")
RECURSIVE FormatMatches(_, _, _, _, _)
FormatMatches(fmt, s, fi, pos, acc) ==
  IF fi > Len(fmt)
  THEN IF pos = Len(s) + 1 THEN {acc} ELSE {}
  ELSE UNION {
         FormatMatches(fmt, s, fi + 1, r.next,
                       CASE r.f = "Y" -> [acc EXCEPT !.year = r.v]
                         [] r.f = "m" -> [acc EXCEPT !.month = r.v]
                         [] r.f = "d" -> [acc EXCEPT !.day = r.v]
                         [] OTHER -> acc) :
         r \in ElemMatches(fmt[fi], s, pos) }

\* datetime.strptime(s, fmt): the date, NoDate for ValueError
Strptime(s, fmt) ==
  LET ms == FormatMatches(fmt, s, 1, 1, [year |-> 1900, month |-> 1, day |-> 1])
  IN  IF ms = {} THEN NoDate
      ELSE LET r == CHOOSE x \in ms : TRUE
           IN  IF ValidDate(r.year, r.month, r.day)
               THEN Date(r.year, r.month)
               ELSE NoDate

\* the loop over date_formats: the first format that parses wins
RECURSIVE TryFormats(_, _)
TryFormats(s, i) ==
  IF i > Len(DateFormats) THEN NoDate
  ELSE LET d == Strptime(s, DateFormats[i])
       IN  IF d # NoDate THEN d ELSE TryFormats(s, i + 1)

(***************************************************************************)
(* parse_date                                                              *)
(***************************************************************************)
MaxOf(S) == CHOOSE x \in S : \A y \in S : x >= y

MinOf(S) == CHOOSE x \in S : \A y \in S : x <= y

\* number of \s characters from position p on
RECURSIVE SpaceRun(_, _)
SpaceRun(s, p) ==
  IF p <= Len(s) /\ IsSpace(s[p]) THEN 1 + SpaceRun(s, p + 1) ELSE 0

\* first position of the run of \w characters that holds position j
RECURSIVE WordRunStart(_, _)
WordRunStart(s, j) ==
  IF j > 1 /\ IsWordChar(s[j - 1]) THEN WordRunStart(s, j - 1) ELSE j

\* position of the four digits when group 1 of (\w+)\s*(\d{4}) ends at j:
\* \s* takes all the white space after j
YearAt(s, j) == j + 1 + SpaceRun(s, j + 1)

\* The positions group 1 can end at: a \w character followed, after any
\* white space, by four digits
WordEnds(s) ==
  {j \in 1..Len(s) :
     IsWordChar(s[j]) /\ AllDigits(s, YearAt(s, j), YearAt(s, j) + 3)}

\* re.search(r'(\w+)\s*(\d{4})', s): the two groups of the match.  The
\* match starts at the leftmost position a match can start at, the start
\* of the first run of \w characters that holds an end of group 1; \w+ is
\* greedy, so group 1 ends at the last such end in that run.
RegexSearch(s) ==
  LET ends == WordEnds(s)
  IN  IF ends = {} THEN [found |-> FALSE, word |-> <<>>, year |-> <<>>]
      ELSE LET i == WordRunStart(s, MinOf(ends))
               j == MaxOf({e \in ends : WordRunStart(s, e) = i})
           IN  [found |-> TRUE, word |-> SubSeq(s, i, j),
                year |-> SubSeq(s, YearAt(s, j), YearAt(s, j) + 3)]

\* the fallback of parse_date after every format failed
LenientDate(s) ==
  LET m == RegexSearch(s)
  IN  IF ~m.found THEN NoDate
      ELSE LET month_num == MonthLookup(SubSeq(Lower(m.word), 1,
                                               IF Len(m.word) < 3 THEN Len(m.word) ELSE 3))
               year == IntOf(m.year)
           IN  IF ValidDate(year, month_num, 1)
               THEN Date(year, month_num)
               ELSE NoDate

NowWords ==
  { <<"p","r","e","s","e","n","t">>,
    <<"r","u","n","n","i","n","g">>,
    <<"c","u","r","r","e","n","t">> }

\* parse_date(x) at the processing date now; x is a value of the Duration
\* column or a token split from it
parse_date(x, now) ==
  IF x.t = "null" \/ x = EmptyStr THEN NoDate
  ELSE LET date_str == Lower(Strip(PyStr(x)))
       IN  IF date_str \in NowWords THEN Date(now.year, now.month)
           ELSE LET d == TryFormats(date_str, 1)
                IN  IF d # NoDate THEN d ELSE LenientDate(date_str)

(***************************************************************************)
(* process_duration_column                                                 *)
(***************************************************************************)
\* x.split(sep) raises AttributeError unless x is a str
SplitRaises(x) ==
  /\ x.t # "str"
  /\ (Contains(PyStr(x), EnDash) \/ Contains(PyStr(x), Hyphen))

\* argument of parse_date in the Start_Date lambda
StartToken(x) ==
  IF Contains(PyStr(x), EnDash) THEN Str(Strip(Split(x.s, EnDash)[1]))
  ELSE IF Contains(PyStr(x), Hyphen) THEN Str(Strip(Split(x.s, Hyphen)[1]))
  ELSE x

\* EndToken taking the second segment instead of the last
EndTokenSecond(x) ==
  IF Contains(PyStr(x), EnDash) THEN Str(Strip(Split(x.s, EnDash)[2]))
  ELSE IF Contains(PyStr(x), Hyphen) THEN Str(Strip(Split(x.s, Hyphen)[2]))
  ELSE Null

\* argument of parse_date in the End_Date lambda
EndToken(x) ==
  IF Contains(PyStr(x), EnDash)
  THEN Str(Strip(Split(x.s, EnDash)[Len(Split(x.s, EnDash))]))
  ELSE IF Contains(PyStr(x), Hyphen)
  THEN Str(Strip(Split(x.s, Hyphen)[Len(Split(x.s, Hyphen))]))
  ELSE Null

\* Series.apply builds the new column from the values parse_date returned:
\* when at least one is a datetime and all of them fit datetime64[ns]
\* (1677-09-21 .. 2262-04-11) the column is stored as datetime64 and every
\* None in it becomes NaT; otherwise the values are kept as they are
ApplyResult(col) ==
  LET dates == {i \in 1..Len(col) : col[i].k = "date"}
      fits(d) == /\ d.year * 12 + d.month >= 1677 * 12 + 10
                 /\ d.year * 12 + d.month <= 2262 * 12 + 4
  IN  IF dates # {} /\ \A i \in dates : fits(col[i])
      THEN [i \in 1..Len(col) |-> IF col[i].k = "None" THEN NaT ELSE col[i]]
      ELSE col

\* calculate_duration_in_months counting both end months
calculate_duration_inclusive(start, end, now) ==
  IF start = NoDate THEN Months(0)
  ELSE LET e == IF end = NoDate THEN Date(now.year, now.month) ELSE end
       IN  IF start.k = "NaT" \/ e.k = "NaT" THEN NaN
           ELSE Months((e.year - start.year) * 12 + (e.month - start.month) + 1)

\* calculate_duration_in_months with the result clamped at 0
calculate_duration_clamped(start, end, now) ==
  IF start = NoDate THEN Months(0)
  ELSE LET e == IF end = NoDate THEN Date(now.year, now.month) ELSE end
       IN  IF start.k = "NaT" \/ e.k = "NaT" THEN NaN
           ELSE IF (e.year - start.year) * 12 + (e.month - start.month) < 0
           THEN Months(0)
           ELSE Months((e.year - start.year) * 12 + (e.month - start.month))

\* calculate_duration_in_months(start, end) on the values of one row; the
\* year and month of NaT are nan, and so is any arithmetic on them
calculate_duration_in_months(start, end, now) ==
  IF start = NoDate THEN Months(0)
  ELSE LET e == IF end = NoDate THEN Date(now.year, now.month) ELSE end
       IN  IF start.k = "NaT" \/ e.k = "NaT" THEN NaN
           ELSE Months((e.year - start.year) * 12 + (e.month - start.month))

\* df.loc[df['Calculated_Duration'].isna(), 'Calculated_Duration'] = 0
CoerceNaN(d) == IF d.nan THEN 0 ELSE d.v

\* pd.DataFrame(all_resumes): the columns are the keys of the row dicts, so
\* a frame built from no row has no column
DataFrame(rows) ==
  [cols |-> IF rows = <<>> THEN {}
            ELSE {"Name", "Mobile", "Email", "Graduation", "Company", "Role", "Duration"},
   rows |-> rows]

\* one row of df with the three columns process_duration_column adds
DurationRow(row, start, end, now) ==
  [Name |-> row.Name, Mobile |-> row.Mobile, Email |-> row.Email,
   Graduation |-> row.Graduation, Company |-> row.Company, Role |-> row.Role,
   Duration |-> row.Duration,
   Start_Date |-> start, End_Date |-> end,
   Calculated_Duration |-> CoerceNaN(calculate_duration_in_months(start, end, now))]

\* lines 250-254 given the two date columns
WithDurations(df, Start_Date, End_Date, now) ==
  [cols |-> df.cols \cup {"Start_Date", "End_Date", "Calculated_Duration"},
   rows |-> [i \in 1..Len(df.rows) |->
               DurationRow(df.rows[i], Start_Date[i], End_Date[i], now)]]

\* df['Start_Date'] of lines 241-244
StartDates(df, now) ==
  ApplyResult([i \in 1..Len(df.rows) |->
                 parse_date(StartToken(df.rows[i].Duration), now)])

\* df['End_Date'] of lines 245-248
EndDates(df, now) ==
  ApplyResult([i \in 1..Len(df.rows) |->
                 parse_date(EndToken(df.rows[i].Duration), now)])

\* process_duration_column(df): exc names the exception that escapes, ""
\* when the function returns df
process_duration_column(df, now) ==
  IF "Duration" \notin df.cols THEN [exc |-> "KeyError", df |-> df]
  ELSE IF \E i \in 1..Len(df.rows) : SplitRaises(df.rows[i].Duration)
  THEN [exc |-> "AttributeError", df |-> df]
  ELSE CHOOSE r \in {[exc |-> "", df |-> WithDurations(df, Start_Date, End_Date, now)] :
                        Start_Date \in {StartDates(df, now)},
                        End_Date \in {EndDates(df, now)}} : TRUE

(***************************************************************************)
(* process_resume_json_files                                               *)
(***************************************************************************)
\* graduation_str of a record: graduation_info is the Graduation value, or
\* {} when that is absent or falsy; anything but a dict gives '' twice
GraduationStr(g) ==
  LET graduation_degree ==
        IF g.t = "dict" THEN GetOrEmpty(g.Degree) ELSE EmptyStr
      graduation_institution ==
        IF g.t = "dict" THEN GetOrEmpty(g.Institution) ELSE EmptyStr
  IN  StripChars(PyStr(graduation_degree) \o <<" ", "-", " ">>
                   \o PyStr(graduation_institution),
                 {Space, Hyphen})

\* the row appended for one work experience; experience is a dict
ExperienceRow(resume_data, experience) ==
  [Name |-> GetOrEmpty(resume_data.Name),
   Mobile |-> GetOrEmpty(resume_data.Mobile),
   Email |-> GetOrEmpty(resume_data.Email),
   Graduation |-> Str(GraduationStr(resume_data.Graduation)),
   Company |-> GetOrEmpty(experience.Company),
   Role |-> GetOrEmpty(experience.Role),
   Duration |-> GetOrEmpty(experience.Duration)]

\* the row appended for a record without work experience
PlaceholderRow(resume_data) ==
  [Name |-> GetOrEmpty(resume_data.Name),
   Mobile |-> GetOrEmpty(resume_data.Mobile),
   Email |-> GetOrEmpty(resume_data.Email),
   Graduation |-> Str(GraduationStr(resume_data.Graduation)),
   Company |-> EmptyStr, Role |-> EmptyStr, Duration |-> EmptyStr]

\* the for loop over resume_data['Work Experiences'] from entry i on:
\* experience.get raises AttributeError on the first entry that is no
\* dict, and the rows appended before it stay in all_resumes
RECURSIVE ExperienceLoop(_, _, _)
ExperienceLoop(resume_data, items, i) ==
  IF i > Len(items) THEN [rows |-> <<>>, exc |-> ""]
  ELSE IF items[i].t # "dict" THEN [rows |-> <<>>, exc |-> "AttributeError"]
  ELSE LET rest == ExperienceLoop(resume_data, items, i + 1)
       IN  [rows |-> <<ExperienceRow(resume_data, items[i])>> \o rest.rows,
            exc |-> rest.exc]

\* lines 122-149 for one dict: the rows appended and the exception raised
FlattenRecord(resume_data) ==
  LET we == resume_data.WorkExperiences
  IN  CASE we.t = "list" /\ we.items # <<>> ->
             ExperienceLoop(resume_data, we.items, 1)
        \* a non-empty str: iterating yields one-character strings
        [] we.t = "str" -> [rows |-> <<>>, exc |-> "AttributeError"]
        \* a non-zero int is not iterable
        [] we.t = "num" -> [rows |-> <<>>, exc |-> "TypeError"]
        [] OTHER -> [rows |-> <<PlaceholderRow(resume_data)>>, exc |-> ""]

ErrorEntry(filename, type, message) ==
  [filename |-> filename, error_type |-> type, error_message |-> message]

\* s.endswith(suffix)
EndsWith(s, suffix) ==
  /\ Len(s) >= Len(suffix)
  /\ SubSeq(s, Len(s) - Len(suffix) + 1, Len(s)) = suffix

\* filename.lower().endswith(('.json', '.jsonl'))
IsResumeFile(filename) ==
  \/ EndsWith(Lower(filename), <<".", "j", "s", "o", "n">>)
  \/ EndsWith(Lower(filename), <<".", "j", "s", "o", "n", "l">>)

\* the entry logged for a file that is not read as a dict: the early
\* exits of lines 104-120 and the two except clauses
FailureEntry(file) ==
  CASE file.kind = "unreadable" ->
         ErrorEntry(file.filename, "UnicodeDecodeError", "str(e)")
    [] file.kind = "empty" ->
         ErrorEntry(file.filename, "Empty File", "JSON file is empty")
    [] file.kind = "malformed" ->
         ErrorEntry(file.filename, "JSON Decode Error", "str(e)")
    [] file.kind = "nondict" ->
         ErrorEntry(file.filename, "Invalid JSON", "JSON does not represent a dictionary")

\* lines 122-169 for a file read as a dict: its rows, and the entry of the
\* exception flattening raised
ProcessRecord(file) ==
  LET r == FlattenRecord(file.data)
  IN  [rows |-> r.rows,
       errors |-> IF r.exc = "" THEN <<>>
                  ELSE <<ErrorEntry(file.filename, r.exc, "str(e)")>>]

\* ProcessFile without the continue of line 110: the empty content goes on
\* to json.loads, which raises JSONDecodeError
ProcessFileNoContinue(file) ==
  IF ~IsResumeFile(file.filename) THEN [rows |-> <<>>, errors |-> <<>>]
  ELSE IF file.kind = "empty"
  THEN [rows |-> <<>>,
        errors |-> <<FailureEntry(file),
                     ErrorEntry(file.filename, "JSON Decode Error", "str(e)")>>]
  ELSE IF file.kind # "dict" THEN [rows |-> <<>>, errors |-> <<FailureEntry(file)>>]
  ELSE ProcessRecord(file)

\* One iteration of the loop over os.listdir: what the file adds to
\* all_resumes and to error_log.  file.kind is what reading and
\* json.loads make of the file: "unreadable" (open/read raises
\* UnicodeDecodeError), "empty" (nothing but white space), "malformed"
\* (json.JSONDecodeError), "nondict" (valid JSON, no dict at the top) or
\* "dict" with the record in file.data.
ProcessFile(file) ==
  IF ~IsResumeFile(file.filename) THEN [rows |-> <<>>, errors |-> <<>>]
  ELSE IF file.kind # "dict" THEN [rows |-> <<>>, errors |-> <<FailureEntry(file)>>]
  ELSE ProcessRecord(file)

(***************************************************************************)
(* upload_resumes: aggregation                                             *)
(***************************************************************************)
\* flatten_mobile leaving a str as it is
flatten_mobile_raw(mobile) ==
  CASE mobile.t = "list" ->
         IF mobile.n > 0 THEN Str(DigitsOf(mobile.s)) ELSE Null
    [] OTHER -> mobile

\* flatten_mobile(mobile)
flatten_mobile(mobile) ==
  CASE mobile.t = "list" ->
         IF mobile.n > 0 THEN Str(DigitsOf(mobile.s)) ELSE Null
    [] mobile.t = "str" -> Str(DigitsOf(mobile.s))
    [] OTHER -> mobile

\* df[[...]] followed by df['Mobile'].apply(flatten_mobile)
CleanRow(r) ==
  [Name |-> r.Name, Mobile |-> flatten_mobile(r.Mobile), Email |-> r.Email,
   Graduation |-> r.Graduation, Company |-> r.Company, Role |-> r.Role,
   Calculated_Duration |-> r.Calculated_Duration]

\* df.dropna(subset=['Mobile'])
DropNa(rows) == SelectSeq(rows, LAMBDA r : r.Mobile.t # "null")

\* a < b for two texts of digits, character by character
RECURSIVE TextBefore(_, _)
TextBefore(a, b) ==
  IF b = <<>> THEN FALSE
  ELSE IF a = <<>> THEN TRUE
  ELSE IF Head(a) # Head(b) THEN DigitVal(Head(a)) < DigitVal(Head(b))
  ELSE TextBefore(Tail(a), Tail(b))

\* the order groupby lists its keys in: numbers before texts, numbers (not
\* negative here) by value, texts character by character
KeyBefore(a, b) ==
  IF a.t # b.t THEN a.t = "num"
  ELSE IF a.t = "num" /\ Len(a.s) # Len(b.s) THEN Len(a.s) < Len(b.s)
  ELSE TextBefore(a.s, b.s)

\* entry e put at its place in the sorted entries acc
RECURSIVE InsertGroup(_, _)
InsertGroup(e, acc) ==
  IF acc = <<>> THEN <<e>>
  ELSE IF KeyBefore(e.Mobile, Head(acc).Mobile) THEN <<e>> \o acc
  ELSE <<Head(acc)>> \o InsertGroup(e, Tail(acc))

\* df.groupby(['Mobile'])['Calculated_Duration'].sum().reset_index(),
\* renamed: one entry per group in the order of the keys, a row joining
\* the group of its key
RECURSIVE GroupSum(_, _)
GroupSum(rows, acc) ==
  IF rows = <<>> THEN acc
  ELSE LET r == Head(rows)
           hit == {k \in 1..Len(acc) : acc[k].Mobile = r.Mobile}
       IN  IF hit = {}
           THEN GroupSum(Tail(rows),
                         InsertGroup([Mobile |-> r.Mobile,
                                      Total_Experience |-> r.Calculated_Duration], acc))
           ELSE LET k == MinOf(hit)
                IN  GroupSum(Tail(rows),
                             [acc EXCEPT ![k].Total_Experience = @ + r.Calculated_Duration])

\* the rows of df.merge(overall_exp, on='Mobile') for one row of df
RECURSIVE JoinRow(_, _)
JoinRow(r, right) ==
  IF right = <<>> THEN <<>>
  ELSE (IF Head(right).Mobile = r.Mobile
        THEN <<[Name |-> r.Name, Mobile |-> r.Mobile, Email |-> r.Email,
                Graduation |-> r.Graduation, Company |-> r.Company, Role |-> r.Role,
                Calculated_Duration |-> r.Calculated_Duration,
                Total_Experience |-> Head(right).Total_Experience]>>
        ELSE <<>>) \o JoinRow(r, Tail(right))

\* df.merge(overall_exp, on='Mobile'): inner join, in the order of df
RECURSIVE Merge(_, _)
Merge(left, right) ==
  IF left = <<>> THEN <<>>
  ELSE JoinRow(Head(left), right) \o Merge(Tail(left), right)

(***************************************************************************)
(* database.py: the resumes table                                          *)
(***************************************************************************)
\* a connection to a database file in which create_table has not run
NoTable == [has_table |-> FALSE, resumes |-> {}]

\* create_table(conn): CREATE TABLE IF NOT EXISTS keeps an existing table
create_table(conn) == [conn EXCEPT !.has_table = TRUE]

\* a value sqlite3 can bind to a placeholder: str, int and None, not a list
Bindable(v) == v.t \in {"str", "num", "null"}

\* the text a value bound to the TEXT column mobile is stored and compared as
MobileText(mobile) == PyStr(mobile)

\* mobile = ? for the record r: NULL is equal to nothing
SameMobile(r, mobile) == mobile.t # "null" /\ r.mobile = MobileText(mobile)

\* the record the INSERT of insert_resume_data stores for row
NewRecord(row, current_date) ==
  [name |-> row.Name, mobile |-> MobileText(row.Mobile), email |-> row.Email,
   graduation |-> row.Graduation, company |-> row.Company, role |-> row.Role,
   calculated_duration |-> row.Calculated_Duration,
   total_experience |-> row.Total_Experience,
   created_at |-> current_date]

\* SELECT COUNT(*) FROM resumes WHERE mobile = ? AND created_at < ?
ExistingCount(conn, mobile, current_date) ==
  Cardinality({r \in conn.resumes :
                 SameMobile(r, mobile) /\ r.created_at < current_date})

\* the values of row sqlite3 has to bind in the INSERT
InsertBindable(row) ==
  /\ Bindable(row.Name) /\ Bindable(row.Mobile) /\ Bindable(row.Email)
  /\ Bindable(row.Graduation) /\ Bindable(row.Company) /\ Bindable(row.Role)

\* INSERT OR REPLACE in the place of the guarded INSERT
insert_or_replace(conn, row, current_date) ==
  IF ~conn.has_table \/ ~InsertBindable(row)
  THEN [conn |-> conn, result |-> FALSE]
  ELSE [conn |-> [conn EXCEPT !.resumes =
                    {r \in @ : ~SameMobile(r, row.Mobile)}
                      \cup {NewRecord(row, current_date)}],
        result |-> TRUE]

\* insert_resume_data on a table whose mobile is no key
insert_without_key(conn, row, current_date) ==
  IF ~conn.has_table \/ ~Bindable(row.Mobile)
  THEN [conn |-> conn, result |-> FALSE]
  ELSE IF ExistingCount(conn, row.Mobile, current_date) = 0
  THEN IF ~InsertBindable(row)
       THEN [conn |-> conn, result |-> FALSE]
       ELSE [conn |-> [conn EXCEPT !.resumes = @ \cup {NewRecord(row, current_date)}],
             result |-> TRUE]
  ELSE [conn |-> conn, result |-> FALSE]

\* insert_resume_data(conn, row) on the day current_date: the connection
\* after the call and the value returned.  Every sqlite3.Error (no table, a
\* value that cannot be bound, a mobile the PRIMARY KEY already holds) is
\* caught and gives False with the table as it was.
insert_resume_data(conn, row, current_date) ==
  IF ~conn.has_table \/ ~Bindable(row.Mobile)
  THEN [conn |-> conn, result |-> FALSE]
  ELSE IF ExistingCount(conn, row.Mobile, current_date) = 0
  THEN IF \/ ~InsertBindable(row)
          \/ \E r \in conn.resumes : SameMobile(r, row.Mobile)
       THEN [conn |-> conn, result |-> FALSE]
       ELSE [conn |-> [conn EXCEPT !.resumes = @ \cup {NewRecord(row, current_date)}],
             result |-> TRUE]
  ELSE [conn |-> conn, result |-> FALSE]

\* the number of ? in the UPDATE statement of update_resume
UpdatePlaceholders == 8

\* the tuple update_resume passes to cursor.execute
UpdateParameters(row) ==
  <<row.Name, row.Email, row.Graduation, row.Company, row.Role,
    row.Calculated_Duration, row.Total_Experience, row.Mobile, row.created_at>>

\* UPDATE resumes SET ... WHERE mobile = ?
UpdateWhere(resumes, row) ==
  {IF SameMobile(r, row.Mobile)
   THEN [r EXCEPT !.name = row.Name, !.email = row.Email,
                  !.graduation = row.Graduation, !.company = row.Company,
                  !.role = row.Role,
                  !.calculated_duration = row.Calculated_Duration,
                  !.total_experience = row.Total_Experience]
   ELSE r : r \in resumes}

\* update_resume(conn, row): the connection after the call and the
\* exception that escapes ("" when none).  row['created_at'] raises
\* KeyError when the row has no such key; execute raises a sqlite3.Error,
\* which is caught, when there is no table or when the number of
\* parameters is not the number of placeholders.
update_resume(conn, row) ==
  IF ~row.has_created_at THEN [conn |-> conn, exc |-> "KeyError"]
  ELSE IF ~conn.has_table THEN [conn |-> conn, exc |-> ""]
  ELSE IF Len(UpdateParameters(row)) # UpdatePlaceholders
  THEN [conn |-> conn, exc |-> ""]
  ELSE [conn |-> [conn EXCEPT !.resumes = UpdateWhere(@, row)], exc |-> ""]

\* delete_resume(conn, mobile): DELETE FROM resumes WHERE mobile = ?
delete_resume(conn, mobile) ==
  IF ~conn.has_table THEN conn
  ELSE [conn EXCEPT !.resumes = {r \in @ : ~SameMobile(r, mobile)}]

(***************************************************************************)
(* Inputs                                                                  *)
(***************************************************************************)
\* "Jan 2019"
tJan2019 == <<"J", "a", "n", " ", "2", "0", "1", "9">>

\* "Dec 2019"
tDec2019 == <<"D", "e", "c", " ", "2", "0", "1", "9">>

\* "2020"
t2020 == <<"2", "0", "2", "0">>

\* "2022"
t2022 == <<"2", "0", "2", "2">>

\* "Present"
tPresent == <<"P", "r", "e", "s", "e", "n", "t">>

\* "x"
tX == <<"x">>

\* "Jan 2019 – Dec 2019"
tJan2019ToDec2019 == <<"J", "a", "n", " ", "2", "0", "1", "9", " ", EnDash, " ", "D", "e", "c", " ", "2", "0", "1", "9">>

\* "Jan 2020 – Present"
tJan2020ToPresent == <<"J", "a", "n", " ", "2", "0", "2", "0", " ", EnDash, " ", "P", "r", "e", "s", "e", "n", "t">>

\* "2020-2022"
t2020To2022 == <<"2", "0", "2", "0", "-", "2", "0", "2", "2">>

\* "Mar 2020"
tMar2020 == <<"M", "a", "r", " ", "2", "0", "2", "0">>

\* "Dec 2020 - Jan 2019"
tReversed == <<"D", "e", "c", " ", "2", "0", "2", "0", " ", "-", " ", "J", "a", "n", " ", "2", "0", "1", "9">>

\* "2019-03 – 2020-05"
tIsoRange == <<"2", "0", "1", "9", "-", "0", "3", " ", EnDash, " ", "2", "0", "2", "0", "-", "0", "5">>

\* "1234567890"
tMobileA == <<"1", "2", "3", "4", "5", "6", "7", "8", "9", "0">>

\* "987-654-3210"
tMobileB == <<"9", "8", "7", "-", "6", "5", "4", "-", "3", "2", "1", "0">>

\* "9876543210"
tMobileBPlain == <<"9", "8", "7", "6", "5", "4", "3", "2", "1", "0">>

\* "987 654 3210"
tMobileBSpaced == <<"9", "8", "7", " ", "6", "5", "4", " ", "3", "2", "1", "0">>

\* "n/a"
tNoDigits == <<"n", "/", "a">>

\* "Ann"
tAnn == <<"A", "n", "n">>

\* "Bob"
tBob == <<"B", "o", "b">>

\* "BSc"
tBSc == <<"B", "S", "c">>

\* "MIT"
tMIT == <<"M", "I", "T">>

\* "Acme"
tAcme == <<"A", "c", "m", "e">>

\* "Dev"
tDev == <<"D", "e", "v">>

\* "-5"
tMinus5 == <<"-", "5">>

\* "5"
tFive == <<"5">>

nA == <<"a", ".", "j", "s", "o", "n">>

nB == <<"b", ".", "j", "s", "o", "n">>

nC == <<"c", ".", "J", "S", "O", "N">>

nD == <<"d", ".", "j", "s", "o", "n", "l">>

nE == <<"e", ".", "j", "s", "o", "n">>

nF == <<"f", ".", "j", "s", "o", "n">>

nG == <<"g", ".", "j", "s", "o", "n">>

nH == <<"h", ".", "j", "s", "o", "n">>

nI == <<"i", ".", "j", "s", "o", "n">>

nJ == <<"j", ".", "j", "s", "o", "n">>

nK == <<"k", ".", "j", "s", "o", "n">>

nL == <<"l", ".", "j", "s", "o", "n">>

nM == <<"m", ".", "j", "s", "o", "n">>

nN == <<"n", ".", "j", "s", "o", "n">>

nTxt == <<"n", ".", "t", "x", "t">>

\* a work-experience entry that is a dict
Exp(company, role, duration) ==
  [t |-> "dict", Company |-> company, Role |-> role, Duration |-> duration]

\* a work-experience entry that is a str, None or an int instead of a dict
NonDictEntry(type) ==
  [t |-> type, Company |-> Absent, Role |-> Absent, Duration |-> Absent]

\* the value under 'Work Experiences': t is "absent", "null", "list", "str"
\* (a non-empty str) or "num" (a non-zero int)
Experiences(items) == [t |-> "list", items |-> items]

NoExperiences(type) == [t |-> type, items |-> <<>>]

\* the value under 'Graduation': t is "absent", "null", "dict" or "str"
\* (a non-empty str)
Graduation(degree, institution) ==
  [t |-> "dict", Degree |-> degree, Institution |-> institution]

NoGraduation(type) == [t |-> type, Degree |-> Absent, Institution |-> Absent]

Record(name, mobile, email, graduation, experiences) ==
  [Name |-> name, Mobile |-> mobile, Email |-> email,
   Graduation |-> graduation, WorkExperiences |-> experiences]

NoRecord ==
  Record(Absent, Absent, Absent, NoGraduation("absent"), NoExperiences("absent"))

File(filename, kind, data) == [filename |-> filename, kind |-> kind, data |-> data]

\* the valid document of the end-to-end scenario
ScenarioFile ==
  File(nA, "dict",
       Record(Str(tAnn), Str(tMobileA), Absent, Graduation(Str(tBSc), Str(tMIT)),
              Experiences(<<Exp(Str(tAcme), Str(tDev), Str(tJan2019ToDec2019)),
                            Exp(Str(tAcme), Absent, Str(tJan2020ToPresent))>>)))

EmptyFile == File(nB, "empty", NoRecord)

MalformedFile == File(nC, "malformed", NoRecord)

NonDictFile == File(nD, "nondict", NoRecord)

UnreadableFile == File(nE, "unreadable", NoRecord)

\* not a .json or .jsonl name
NotJsonFile == File(nTxt, "malformed", NoRecord)

\* no work experience at all
NoStintFile ==
  File(nF, "dict",
       Record(Str(tBob), Str(tMobileB), Absent, NoGraduation("absent"),
              NoExperiences("absent")))

\* the mobile of NoStintFile written without separators
SameMobileFile ==
  File(nG, "dict",
       Record(Str(tBob), Str(tMobileBPlain), Absent, Graduation(Absent, Str(tMIT)),
              Experiences(<<Exp(Str(tAcme), Str(tDev), Str(t2020To2022))>>)))

\* the second entry is a str; Mobile is a list
BadEntryFile ==
  File(nH, "dict",
       Record(Str(tBob), List1(tMobileBSpaced), Absent, NoGraduation("str"),
              Experiences(<<Exp(Absent, Absent, Str(tMar2020)), NonDictEntry("str")>>)))

\* an open-ended stint; Company is null and Role an int
OpenEndedFile ==
  File(nI, "dict",
       Record(Str(tAnn), Str(tMobileA), Absent, Graduation(Null, Absent),
              Experiences(<<Exp(Null, Num(tFive), Str(tMar2020))>>)))

\* end before start, no Mobile
ReversedFile ==
  File(nJ, "dict",
       Record(Str(tAnn), Absent, Absent, NoGraduation("null"),
              Experiences(<<Exp(Str(tAcme), Str(tDev), Str(tReversed))>>)))

\* Duration is the int -5, Mobile is null
IntDurationFile ==
  File(nK, "dict",
       Record(Absent, Null, Absent, NoGraduation("absent"),
              Experiences(<<Exp(Str(tAcme), Str(tDev), Num(tMinus5))>>)))

\* Mobile without a digit, empty list of experiences
NoDigitsFile ==
  File(nL, "dict",
       Record(Str(tBob), Str(tNoDigits), Absent, NoGraduation("absent"),
              Experiences(<<>>)))

\* Mobile an empty list, Work Experiences a str
StrExperiencesFile ==
  File(nM, "dict",
       Record(Str(tAnn), List0, Absent, NoGraduation("absent"), NoExperiences("str")))

\* Mobile an int, Duration null
IntMobileFile ==
  File(nN, "dict",
       Record(Str(tAnn), Num(tMobileBPlain), Absent, NoGraduation("absent"),
              Experiences(<<Exp(Str(tAcme), Str(tDev), Null)>>)))

\* the files a folder is drawn from
FilePool ==
  { ScenarioFile, EmptyFile, MalformedFile, NonDictFile, UnreadableFile, NotJsonFile,
    NoStintFile, SameMobileFile, BadEntryFile, OpenEndedFile, ReversedFile,
    IntDurationFile, NoDigitsFile, StrExperiencesFile, IntMobileFile }

\* most files in a folder
MaxFiles == 2

\* os.listdir(folder_path): files with distinct names, in any order
Folders ==
  {f \in UNION {[1..n -> FilePool] : n \in 0..MaxFiles} :
     \A i, j \in 1..Len(f) : i # j => f[i].filename # f[j].filename}

\* the processing dates (year, month) a run can happen at
Clocks == {[year |-> 2024, month |-> 3], [year |-> 2026, month |-> 11]}

\* the pieces Duration texts are made of
Chunks == {tJan2019, t2020, tPresent, tX, <<Space>>, <<Hyphen>>, <<EnDash>>}

\* most pieces in a Duration text
MaxChunks == 3

\* the texts made of exactly n pieces
RECURSIVE TextsOf(_)
TextsOf(n) ==
  IF n = 0 THEN {<<>>}
  ELSE {a \o b : a \in Chunks, b \in TextsOf(n - 1)}

\* the Duration texts of the single-stint runs
TextPool ==
  UNION {TextsOf(n) : n \in 0..MaxChunks}
    \cup {tJan2019ToDec2019, tJan2020ToPresent, t2020To2022, tMar2020, tReversed, tIsoRange}

\* a record whose first stint has the Duration text d, followed by more
TextFile(d, more) ==
  File(nA, "dict",
       Record(Str(tAnn), Str(tMobileA), Absent, NoGraduation("absent"),
              Experiences(<<Exp(Str(tAcme), Str(tDev), Str(d))>> \o more)))

\* the stints that may follow: none, or one whose two dates resolve
MoreStints == {<<>>, <<Exp(Str(tAcme), Str(tDev), Str(tJan2019ToDec2019))>>}

(***************************************************************************)
(* The run of upload_resumes over one folder                               *)
(***************************************************************************)
VARIABLES
  folder,       \* os.listdir(folder_path), the files in listing order
  now,          \* datetime.now(), (year, month)
  idx,          \* position of the loop of process_resume_json_files
  all_resumes,  \* rows appended so far
  error_log,    \* error entries appended so far
  df,           \* the data frame of upload_resumes
  overall_exp,  \* the aggregate frame of upload_resumes
  pc,           \* "files", "durations", "aggregate", "done", "saving" or "raised"
  exc,          \* the exception that ended the run when pc = "raised"
  conn,         \* the database resumes.db: whether it has the table, and its records
  today,        \* datetime.now() as a day number
  save_pos,     \* position of the loop of "Save to Database" in df
  calls         \* the calls made on the database so far, with what they returned

\* the variables of the database and of its callers
db_vars == <<conn, today, save_pos, calls>>

vars == <<folder, now, idx, all_resumes, error_log, df, overall_exp, pc, exc,
          conn, today, save_pos, calls>>

Start(f, clock) ==
  /\ folder = f
  /\ now = clock
  /\ idx = 1
  /\ all_resumes = <<>>
  /\ error_log = <<>>
  /\ df = DataFrame(<<>>)
  /\ overall_exp = <<>>
  /\ pc = "files"
  /\ exc = ""
  /\ conn = NoTable
  /\ today = 1
  /\ save_pos = 0
  /\ calls = <<>>

Init == \E f \in Folders, clock \in Clocks : Start(f, clock)

\* one iteration of the loop over the files (lines 96-169)
ReadFile ==
  /\ pc = "files"
  /\ idx <= Len(folder)
  /\ LET r == ProcessFile(folder[idx])
     IN  /\ all_resumes' = all_resumes \o r.rows
         /\ error_log' = error_log \o r.errors
  /\ idx' = idx + 1
  /\ UNCHANGED <<folder, now, df, overall_exp, pc, exc>>
  /\ UNCHANGED db_vars

\* the end of process_resume_json_files (lines 171-184)
ReturnFrame ==
  /\ pc = "files"
  /\ idx > Len(folder)
  /\ df' = DataFrame(all_resumes)
  /\ pc' = "durations"
  /\ UNCHANGED <<folder, now, idx, all_resumes, error_log, overall_exp, exc>>
  /\ UNCHANGED db_vars

\* the call returns r.df, or r.exc escapes and ends the run
Returned(r) ==
  /\ df' = r.df
  /\ exc' = r.exc
  /\ pc' = IF r.exc = "" THEN "aggregate" ELSE "raised"

\* df = process_duration_column(df) (main_v2.py line 55)
DurationColumn ==
  /\ pc = "durations"
  /\ \E r \in {process_duration_column(df, now)} : Returned(r)
  /\ UNCHANGED <<folder, now, idx, all_resumes, error_log, overall_exp>>
  /\ UNCHANGED db_vars

\* main_v2.py lines 58-81: column selection, mobile clean-up, dropna,
\* group sum and merge
Aggregate ==
  /\ pc = "aggregate"
  /\ LET clean == DropNa([i \in 1..Len(df.rows) |-> CleanRow(df.rows[i])])
         sums == GroupSum(clean, <<>>)
     IN  /\ overall_exp' = sums
         /\ df' = [cols |-> {"Name", "Mobile", "Email", "Graduation", "Company", "Role",
                             "Calculated_Duration", "Total_Experience"},
                   rows |-> Merge(clean, sums)]
  /\ pc' = "done"
  /\ UNCHANGED <<folder, now, idx, all_resumes, error_log, exc>>
  /\ UNCHANGED db_vars

Next == ReadFile \/ ReturnFrame \/ DurationColumn \/ Aggregate

Spec == Init /\ [][Next]_vars

\* runs over a folder of one record, its Duration text drawn from TextPool
InitText ==
  \E d \in TextPool, more \in MoreStints, clock \in Clocks :
    Start(<<TextFile(d, more)>>, clock)

SpecText == InitText /\ [][Next]_vars

(***************************************************************************)
(* Runs over date tokens no format of parse_date matches                   *)
(***************************************************************************)
\* "Sept 2019"
tSept2019 == <<"S", "e", "p", "t", " ", "2", "0", "1", "9">>

\* "Summer 2019"
tSummer2019 == <<"S", "u", "m", "m", "e", "r", " ", "2", "0", "1", "9">>

\* "2019 March"
t2019March == <<"2", "0", "1", "9", " ", "M", "a", "r", "c", "h">>

\* "March 0000"
tMarch0000 == <<"M", "a", "r", "c", "h", " ", "0", "0", "0", "0">>

\* "Mar20192020"
tMar20192020 == <<"M", "a", "r", "2", "0", "1", "9", "2", "0", "2", "0">>

\* "3rd March 2019"
t3rdMarch2019 == <<"3", "r", "d", " ", "M", "a", "r", "c", "h", " ", "2", "0", "1", "9">>

\* "Q1 2019"
tQ12019 == <<"Q", "1", " ", "2", "0", "1", "9">>

\* "March 12019"
tMarch12019 == <<"M", "a", "r", "c", "h", " ", "1", "2", "0", "1", "9">>

\* "MAY2021"
tMAY2021 == <<"M", "A", "Y", "2", "0", "2", "1">>

\* "approx. June 2018"
tApproxJune2018 == <<"a", "p", "p", "r", "o", "x", ".", " ", "J", "u", "n", "e", " ", "2", "0", "1", "8">>

\* "fy_2019"
tFy2019 == <<"f", "y", "_", "2", "0", "1", "9">>

\* "since 99"
tSince99 == <<"s", "i", "n", "c", "e", " ", "9", "9">>

\* "a00002020"
tA00002020 == <<"a", "0", "0", "0", "0", "2", "0", "2", "0">>

\* "20191"
t20191 == <<"2", "0", "1", "9", "1">>

\* the tokens of the runs
LenientTokens ==
  { tSept2019, tSummer2019, t2019March, tMarch0000, tMar20192020,
    t3rdMarch2019, tQ12019, tMarch12019, tMAY2021, tApproxJune2018,
    tFy2019, tSince99, tA00002020, t20191 }

\* "2018 " and an en-dash and " ": the start of a range
tFrom2018 == <<"2", "0", "1", "8", Space, EnDash, Space>>

\* each token as a whole Duration text, and as the end of a range
LenientPool == LenientTokens \cup {tFrom2018 \o t : t \in LenientTokens}

\* runs over a folder of one record, its Duration text drawn from LenientPool
InitLenient ==
  \E d \in LenientPool, more \in MoreStints, clock \in Clocks :
    Start(<<TextFile(d, more)>>, clock)

SpecLenient == InitLenient /\ [][Next]_vars

(***************************************************************************)
(* Saving to resumes.db, and the calls of the "View Resumes" page          *)
(***************************************************************************)
\* the last day of a run
MaxDay == 2

\* most calls on the database in a run
MaxCalls == 5

\* most calls of update_resume in a run
MaxUpdates == 1

\* most calls of delete_resume in a run
MaxDeletes == 1

\* number of calls of op made so far
CallsOf(op) == Cardinality({i \in 1..Len(calls) : calls[i].op = op})

\* the entry of calls for one call
Call(op, row, result) == [op |-> op, row |-> row, day |-> today, result |-> result]

\* the pipeline variables, which the database calls leave alone
run_vars == <<folder, now, idx, all_resumes, error_log, df, overall_exp, exc>>

\* "Save to Database" pressed (main_v2.py lines 140-143): create_connection
\* and create_table, then the loop over df starts
SaveToDatabase ==
  /\ pc = "done"
  /\ Len(calls) + Len(df.rows) <= MaxCalls
  /\ conn' = create_table(conn)
  /\ save_pos' = 1
  /\ pc' = "saving"
  /\ UNCHANGED <<run_vars, today, calls>>

\* what one call insert_resume_data(conn, row) leaves
Inserted(row, r) ==
  /\ conn' = r.conn
  /\ calls' = Append(calls, Call("insert", row, IF r.result THEN "True" ELSE "False"))

\* one iteration of the loop of lines 146-147
InsertRow ==
  /\ pc = "saving"
  /\ save_pos <= Len(df.rows)
  /\ \E r \in {insert_resume_data(conn, df.rows[save_pos], today)} :
       Inserted(df.rows[save_pos], r)
  /\ save_pos' = save_pos + 1
  /\ UNCHANGED <<run_vars, today, pc>>

\* the loop is over (lines 149-157)
SaveDone ==
  /\ pc = "saving"
  /\ save_pos > Len(df.rows)
  /\ save_pos' = 0
  /\ pc' = "done"
  /\ UNCHANGED <<run_vars, conn, today, calls>>

\* midnight passes
AdvanceDay ==
  /\ pc \in {"done", "saving"}
  /\ today < MaxDay
  /\ today' = today + 1
  /\ UNCHANGED <<run_vars, pc, conn, save_pos, calls>>

\* the record r as a row of the edited frame, with another name and
\* total, with or without the column created_at
EditedRow(r, name, has_created_at) ==
  [Name |-> name, Mobile |-> Str(r.mobile), Email |-> r.email,
   Graduation |-> r.graduation, Company |-> r.company, Role |-> r.role,
   Calculated_Duration |-> r.calculated_duration,
   Total_Experience |-> r.total_experience + 1,
   created_at |-> r.created_at, has_created_at |-> has_created_at]

\* a row whose mobile no record has
StrangerRow ==
  [Name |-> Str(tX), Mobile |-> Str(t2020), Email |-> EmptyStr,
   Graduation |-> EmptyStr, Company |-> EmptyStr, Role |-> EmptyStr,
   Calculated_Duration |-> 0, Total_Experience |-> 0,
   created_at |-> 1, has_created_at |-> TRUE]

\* the rows update_resume is called with
EditedRows ==
  {EditedRow(r, Str(tX), c) : r \in conn.resumes, c \in BOOLEAN} \cup {StrangerRow}

\* what one call update_resume(conn, row) leaves
Updated(row, r) ==
  /\ conn' = r.conn
  /\ calls' = Append(calls, Call("update", row, IF r.exc = "" THEN "None" ELSE r.exc))

\* update_resume(conn, row) (main_v2.py line 180)
UpdateResume ==
  /\ pc = "done"
  /\ Len(calls) < MaxCalls
  /\ CallsOf("update") < MaxUpdates
  /\ \E row \in EditedRows :
       \E r \in {update_resume(conn, row)} : Updated(row, r)
  /\ UNCHANGED <<run_vars, pc, today, save_pos>>

\* the mobiles delete_resume is called with
DeleteKeys == {Str(tMobileA), Str(tMobileBPlain), EmptyStr}

\* delete_resume(conn, mobile) (main_v2.py line 187)
DeleteResume ==
  /\ pc = "done"
  /\ Len(calls) < MaxCalls
  /\ CallsOf("delete") < MaxDeletes
  /\ \E mobile \in DeleteKeys :
       /\ conn' = delete_resume(conn, mobile)
       /\ calls' = Append(calls, Call("delete", [Mobile |-> mobile], "None"))
  /\ UNCHANGED <<run_vars, pc, today, save_pos>>

\* two stints of a record whose Email is a list
ListEmailFile ==
  File(nA, "dict",
       Record(Str(tBob), Str(tMobileB), List1(tX), NoGraduation("absent"),
              Experiences(<<Exp(Str(tAcme), Str(tDev), Str(tMar2020)),
                            Exp(Null, Str(tDev), Str(t2020To2022))>>)))

\* two stints, the Company of the first a list
ListCompanyFile ==
  File(nA, "dict",
       Record(Str(tBob), Str(tMobileB), Absent, NoGraduation("absent"),
              Experiences(<<Exp(List1(tAcme), Str(tDev), Str(tMar2020)),
                            Exp(Str(tAcme), Str(tDev), Str(t2020To2022))>>)))

\* the folders of the runs that go on to the database
DbFolders ==
  { <<ScenarioFile, EmptyFile>>, <<NoStintFile, SameMobileFile>>,
    <<IntMobileFile, SameMobileFile>>, <<ReversedFile, NoDigitsFile>>,
    <<OpenEndedFile, ScenarioFile>>, <<ListEmailFile>>, <<ListCompanyFile>> }

InitDb == \E f \in DbFolders, clock \in Clocks : Start(f, clock)

NextDb ==
  \/ ReadFile \/ ReturnFrame \/ DurationColumn \/ Aggregate
  \/ SaveToDatabase \/ InsertRow \/ SaveDone \/ AdvanceDay
  \/ UpdateResume \/ DeleteResume

SpecDb == InitDb /\ [][NextDb]_vars

(***************************************************************************)
(* Properties of process_resume_json_files                                 *)
(***************************************************************************)
\* the loop is about to read a file that deserializes to a dict
ReadsRecord ==
  /\ pc = "files"
  /\ idx <= Len(folder)
  /\ IsResumeFile(folder[idx].filename)
  /\ folder[idx].kind = "dict"

\* the rows the step appends to all_resumes
AppendedRows == SubSeq(all_resumes', Len(all_resumes) + 1, Len(all_resumes'))

\* C1: a record with N >= 1 work-experience entries appends exactly N rows,
\* each with the Name, Mobile, Email and Graduation string of the record; a
\* record whose work-experience list is absent or empty appends exactly one
\* row with empty Company, Role and Duration.
C1_RowsPerRecord ==
  [][ReadsRecord =>
       LET data == folder[idx].data
           we == data.WorkExperiences
       IN  /\ (we.t = "list" /\ Len(we.items) >= 1) =>
                /\ Len(AppendedRows) = Len(we.items)
                /\ \A k \in 1..Len(AppendedRows) :
                     /\ AppendedRows[k].Name = GetOrEmpty(data.Name)
                     /\ AppendedRows[k].Mobile = GetOrEmpty(data.Mobile)
                     /\ AppendedRows[k].Email = GetOrEmpty(data.Email)
                     /\ AppendedRows[k].Graduation = AppendedRows[1].Graduation
           /\ (we.t = "absent" \/ (we.t = "list" /\ we.items = <<>>)) =>
                /\ Len(AppendedRows) = 1
                /\ AppendedRows[1].Company = EmptyStr
                /\ AppendedRows[1].Role = EmptyStr
                /\ AppendedRows[1].Duration = EmptyStr]_vars

\* the file fails to deserialize: unreadable or empty content, malformed
\* JSON syntax, or JSON whose top level is no object
FailsToDeserialize(file) ==
  /\ IsResumeFile(file.filename)
  /\ file.kind \in {"unreadable", "empty", "malformed", "nondict"}

\* the error kind that matches each failure
MatchingKind(kind) ==
  CASE kind = "empty" -> "Empty File"
    [] kind = "malformed" -> "JSON Decode Error"
    [] kind = "nondict" -> "Invalid JSON"
    [] kind = "unreadable" -> "UnicodeDecodeError"

\* the files the loop has read
FilesRead == SubSeq(folder, 1, idx - 1)

\* what reading the files fs one after the other appends
RECURSIVE RowsFrom(_)
RowsFrom(fs) ==
  IF fs = <<>> THEN <<>> ELSE ProcessFile(Head(fs)).rows \o RowsFrom(Tail(fs))

RECURSIVE ErrorsFrom(_)
ErrorsFrom(fs) ==
  IF fs = <<>> THEN <<>> ELSE ProcessFile(Head(fs)).errors \o ErrorsFrom(Tail(fs))

\* C2: every file read that fails to deserialize has exactly one entry in
\* the error log, of the matching kind, and adds no row; the rows and the
\* other error entries are those of the same files read without it.
C2_FailuresLoggedAndSkipped ==
  LET failed == {i \in 1..Len(FilesRead) : FailsToDeserialize(FilesRead[i])}
      others == SelectSeq(FilesRead, LAMBDA f : ~FailsToDeserialize(f))
      entries(name) == {k \in 1..Len(error_log) : error_log[k].filename = name}
      failedNames == {FilesRead[i].filename : i \in failed}
  IN  /\ \A i \in failed :
           /\ Cardinality(entries(FilesRead[i].filename)) = 1
           /\ \A k \in entries(FilesRead[i].filename) :
                /\ error_log[k].error_type = MatchingKind(FilesRead[i].kind)
                /\ error_log[k].error_message # ""
      /\ all_resumes = RowsFrom(others)
      /\ SelectSeq(error_log, LAMBDA e : e.filename \notin failedNames)
           = ErrorsFrom(others)

\* C2 witness: a folder of two files is read, one failed to deserialize
\* and the other gave rows
C2_Witness ==
  /\ pc = "durations"
  /\ Len(folder) = 2
  /\ \E i \in 1..2 : FailsToDeserialize(folder[i])
  /\ Len(error_log) = 1
  /\ all_resumes # <<>>

\* C3: the pipeline never raises: process_duration_column returns a frame
\* with a Calculated_Duration for every flat row, whatever the batch.
C3_PipelineCompletes ==
  /\ pc # "raised"
  /\ pc = "aggregate" =>
       /\ "Calculated_Duration" \in df.cols
       /\ Len(df.rows) = Len(all_resumes)

\* C4: reading a record raises nothing and logs nothing, and no value of
\* another type than str reaches Company, Role or Duration of a row: an
\* absent or wrong-typed sub-field is the empty string.
C4_FlattenTotal ==
  [][ReadsRecord =>
       /\ error_log' = error_log
       /\ \A k \in 1..Len(AppendedRows) :
            /\ AppendedRows[k].Company.t = "str"
            /\ AppendedRows[k].Role.t = "str"
            /\ AppendedRows[k].Duration.t = "str"]_vars

(***************************************************************************)
(* Properties of process_duration_column                                   *)
(***************************************************************************)
\* the dates parse_date returns for the Duration value x
StartOf(x) == parse_date(StartToken(x), now)

EndOf(x) == parse_date(EndToken(x), now)

\* months from date a to date b
MonthsFromTo(a, b) == (b.year - a.year) * 12 + (b.month - a.month)

\* (year, month) of a is earlier than that of b
Earlier(a, b) == a.year * 12 + a.month < b.year * 12 + b.month

\* the end date the month count is taken to: the current processing date
\* when the end is unresolved
EndUsed(x) == IF EndOf(x) = NoDate THEN Date(now.year, now.month) ELSE EndOf(x)

\* C5: Calculated_Duration is 0 when the start is unresolved, the months
\* from the start to the current processing date when only the end is
\* unresolved, and (endYear - startYear) * 12 + (endMonth - startMonth),
\* unclamped, when both are resolved.
C5_MonthsBetween ==
  pc = "aggregate" =>
    \A i \in 1..Len(df.rows) :
      LET x == df.rows[i].Duration
          months == df.rows[i].Calculated_Duration
      IN  /\ StartOf(x) = NoDate => months = 0
          /\ (StartOf(x) # NoDate /\ EndOf(x) = NoDate) =>
               months = MonthsFromTo(StartOf(x), Date(now.year, now.month))
          /\ (StartOf(x) # NoDate /\ EndOf(x) # NoDate) =>
               months = MonthsFromTo(StartOf(x), EndOf(x))

\* C6 as stated: Calculated_Duration is never negative, and is 0 whenever
\* the start date is unresolved.
C6_NonNegative ==
  pc = "aggregate" =>
    \A i \in 1..Len(df.rows) :
      /\ df.rows[i].Calculated_Duration >= 0
      /\ StartOf(df.rows[i].Duration) = NoDate => df.rows[i].Calculated_Duration = 0

\* C6 amended: Calculated_Duration is 0 whenever the start date is
\* unresolved and is not negative unless the start is later than the end
\* date used; a range whose end precedes its start keeps the negative
\* month difference.
C6_SignOfDuration ==
  pc = "aggregate" =>
    \A i \in 1..Len(df.rows) :
      LET x == df.rows[i].Duration
          months == df.rows[i].Calculated_Duration
      IN  /\ StartOf(x) = NoDate => months = 0
          /\ (StartOf(x) # NoDate /\ ~Earlier(EndUsed(x), StartOf(x))) => months >= 0
          /\ (StartOf(x) # NoDate /\ EndOf(x) # NoDate /\ Earlier(EndOf(x), StartOf(x))) =>
               /\ months = MonthsFromTo(StartOf(x), EndOf(x))
               /\ months < 0

\* C6 witness: a row whose range ends before it starts got a negative
\* Calculated_Duration
C6_Witness ==
  /\ pc = "aggregate"
  /\ \E i \in 1..Len(df.rows) :
       /\ EndOf(df.rows[i].Duration) # NoDate
       /\ StartOf(df.rows[i].Duration) # NoDate
       /\ Earlier(EndOf(df.rows[i].Duration), StartOf(df.rows[i].Duration))
       /\ df.rows[i].Calculated_Duration < 0

\* positions of the character c in s
Positions(s, c) == {i \in 1..Len(s) : s[i] = c}

\* the trimmed text before the first c
BeforeFirst(s, c) == Strip(SubSeq(s, 1, MinOf(Positions(s, c)) - 1))

\* the trimmed text after the last c
AfterLast(s, c) == Strip(SubSeq(s, MaxOf(Positions(s, c)) + 1, Len(s)))

\* the value stored in a date column for the date parse_date returned:
\* the date itself, None possibly as NaT
StoredAs(d) == IF d = NoDate THEN {NoDate, NaT} ELSE {d}

\* C7: with an en-dash in the Duration text the start token is the trimmed
\* text before the first en-dash and the end token the trimmed text after
\* the last one; else with a hyphen the same holds of the hyphen; else the
\* whole text is the start token, there is no end token and the end date
\* is unresolved.  Start_Date and End_Date are the dates of these tokens,
\* and "2020-2022" gives 24 months.
C7_RangeSplit ==
  pc = "aggregate" =>
    \A i \in 1..Len(df.rows) :
      LET x == df.rows[i].Duration
          sep == IF Positions(x.s, EnDash) # {} THEN EnDash ELSE Hyphen
      IN  /\ x.t = "str"
          /\ Positions(x.s, sep) # {} =>
               /\ StartToken(x) = Str(BeforeFirst(x.s, sep))
               /\ EndToken(x) = Str(AfterLast(x.s, sep))
               /\ df.rows[i].Start_Date \in StoredAs(parse_date(Str(BeforeFirst(x.s, sep)), now))
               /\ df.rows[i].End_Date \in StoredAs(parse_date(Str(AfterLast(x.s, sep)), now))
          /\ Positions(x.s, sep) = {} =>
               /\ StartToken(x) = x
               /\ EndToken(x) = Null
               /\ df.rows[i].Start_Date \in StoredAs(parse_date(x, now))
               /\ df.rows[i].End_Date \in {NoDate, NaT}
          /\ x.s = t2020To2022 =>
               /\ StartToken(x) = Str(t2020)
               /\ EndToken(x) = Str(t2022)
               /\ df.rows[i].Calculated_Duration = 24

\* C7 witness: the Duration "2020-2022" got 24 months
C7_Witness ==
  /\ pc = "aggregate"
  /\ df.rows[1].Duration = Str(t2020To2022)
  /\ df.rows[1].Start_Date = Date(2020, 1)
  /\ df.rows[1].End_Date = Date(2022, 1)
  /\ df.rows[1].Calculated_Duration = 24

(***************************************************************************)
(* Properties of the aggregation of upload_resumes                         *)
(***************************************************************************)
\* the folder of the end-to-end scenario: the valid document and an empty one
ScenarioRun ==
  /\ Len(folder) = 2
  /\ {folder[1], folder[2]} = {ScenarioFile, EmptyFile}

\* the outcome of the scenario when "Jan 2019 - Dec 2019" counts for
\* months: one error entry for the empty file, two flat rows, one aggregate
\* entry for "1234567890" with total months + (Jan 2020 to now)
ScenarioOutcome(months) ==
  /\ Len(error_log) = 1
  /\ error_log[1].filename = EmptyFile.filename
  /\ error_log[1].error_type = "Empty File"
  /\ Len(all_resumes) = 2
  /\ Len(df.rows) = 2
  /\ Len(overall_exp) = 1
  /\ overall_exp[1].Mobile = Str(tMobileA)
  /\ overall_exp[1].Total_Experience
       = months + MonthsFromTo(Date(2020, 1), Date(now.year, now.month))
  /\ \A i \in 1..2 :
       df.rows[i].Total_Experience = overall_exp[1].Total_Experience

\* C8 as stated: the aggregate total of the scenario is 12 plus the months
\* from Jan 2020 to the current processing date.
C8_ScenarioTwelve == (pc = "done" /\ ScenarioRun) => ScenarioOutcome(12)

\* C8 amended: the scenario ends with one Empty File entry, two flat rows
\* and a total of 11 plus the months from Jan 2020 to the processing date.
C8_ScenarioEleven ==
  /\ ScenarioRun => pc # "raised"
  /\ (pc = "done" /\ ScenarioRun) => ScenarioOutcome(11)

\* C8 witness: the scenario has run to its end
C8_Witness ==
  /\ pc = "done"
  /\ ScenarioRun
  /\ folder[1] = EmptyFile
  /\ df.rows[1].Calculated_Duration = 11

\* a Mobile value dropna removes: None, or the empty list that
\* flatten_mobile turns into None
NoMobile(m) == m.t = "null" \/ (m.t = "list" /\ m.n = 0)

\* s without its characters that are no digits
RECURSIVE OnlyDigits(_)
OnlyDigits(s) ==
  IF s = <<>> THEN <<>>
  ELSE IF Head(s) \in Digit THEN <<Head(s)>> \o OnlyDigits(Tail(s))
  ELSE OnlyDigits(Tail(s))

\* the normalized mobile: the digits of the text (of the first element of
\* a list); a number is its own key
Normalized(m) == IF m.t \in {"str", "list"} THEN Str(OnlyDigits(m.s)) ELSE m

\* sum of Calculated_Duration over the rows of df at the positions in S
RECURSIVE SumAt(_)
SumAt(S) ==
  IF S = {} THEN 0
  ELSE LET i == CHOOSE j \in S : TRUE
       IN  df.rows[i].Calculated_Duration + SumAt(S \ {i})

\* C9: the joined frame has the rows that have a mobile, in their order and
\* once each, under the digits-only mobile; overall_exp has exactly one entry
\* per distinct normalized mobile, its Total_Experience is the sum of
\* Calculated_Duration over the rows of that mobile, and every row carries
\* the total of its mobile.
C9_Aggregation ==
  pc = "done" =>
    LET kept == SelectSeq(all_resumes, LAMBDA r : ~NoMobile(r.Mobile))
        rowsOf(key) == {i \in 1..Len(df.rows) : df.rows[i].Mobile = key}
    IN  /\ Len(df.rows) = Len(kept)
        /\ \A i \in 1..Len(df.rows) :
             /\ df.rows[i].Mobile = Normalized(kept[i].Mobile)
             /\ df.rows[i].Name = kept[i].Name
             /\ df.rows[i].Company = kept[i].Company
             /\ df.rows[i].Role = kept[i].Role
        /\ \A j, k \in 1..Len(overall_exp) :
             j # k => overall_exp[j].Mobile # overall_exp[k].Mobile
        /\ {overall_exp[j].Mobile : j \in 1..Len(overall_exp)}
             = {Normalized(kept[i].Mobile) : i \in 1..Len(kept)}
        /\ \A j \in 1..Len(overall_exp) :
             /\ overall_exp[j].Total_Experience = SumAt(rowsOf(overall_exp[j].Mobile))
             /\ \A i \in rowsOf(overall_exp[j].Mobile) :
                  df.rows[i].Total_Experience = overall_exp[j].Total_Experience

\* C9 witness: "987-654-3210" and "9876543210" ended under one entry
C9_Witness ==
  /\ pc = "done"
  /\ Len(folder) = 2
  /\ {folder[1], folder[2]} = {NoStintFile, SameMobileFile}
  /\ Len(overall_exp) = 1
  /\ overall_exp[1].Mobile = Str(tMobileBPlain)
  /\ overall_exp[1].Total_Experience = 24
  /\ Len(df.rows) = 2

\* C10: a row whose normalized mobile is empty is left out of the
\* aggregation: overall_exp has no entry for the empty key and the joined
\* frame has no row with it.
C10_EmptyMobileExcluded ==
  pc = "done" =>
    /\ \A j \in 1..Len(overall_exp) : overall_exp[j].Mobile # EmptyStr
    /\ \A i \in 1..Len(df.rows) : df.rows[i].Mobile # EmptyStr

(***************************************************************************)
(* Properties of the resumes table                                         *)
(***************************************************************************)
\* the key of a row: the text of its mobile
KeyText(row) == row.Mobile.s

\* this step is a call insert_resume_data(conn, row)
InsertCall ==
  /\ Len(calls') = Len(calls) + 1
  /\ calls'[Len(calls')].op = "insert"

\* the records of the key of row created before day d / on day d
CreatedBefore(row, d) ==
  {r \in conn.resumes : r.mobile = KeyText(row) /\ r.created_at < d}

CreatedOn(row, d) ==
  {r \in conn.resumes : r.mobile = KeyText(row) /\ r.created_at = d}

\* an insert for a key that has a record created before today returns
\* False and leaves the table as it was; an insert for a key that has a
\* record of today leaves that record, and the table, as they were
InsertPolicyStep ==
  InsertCall =>
    LET c == calls'[Len(calls')]
    IN  /\ c.day = today
        /\ CreatedBefore(c.row, today) # {} =>
             c.result = "False" /\ conn' = conn
        /\ CreatedOn(c.row, today) # {} =>
             /\ CreatedOn(c.row, today) \subseteq conn'.resumes
             /\ conn'.resumes = conn.resumes

\* every call made so far is a call of insert_resume_data
OnlyInserts == \A i \in 1..Len(calls) : calls[i].op = "insert"

\* the calls that returned True for the key of row on day d
SucceededOn(key, d) ==
  {i \in 1..Len(calls) :
     /\ calls[i].op = "insert" /\ calls[i].result = "True"
     /\ KeyText(calls[i].row) = key /\ calls[i].day = d}

\* over inserts and advances of the date, at most one insert per key and
\* day returned True
OneInsertPerDay ==
  OnlyInserts =>
    \A i \in 1..Len(calls) :
      Cardinality(SucceededOn(KeyText(calls[i].row), calls[i].day)) <= 1

UpdateCall ==
  /\ Len(calls') = Len(calls) + 1
  /\ calls'[Len(calls')].op = "update"

\* the record r holds the values of row
HoldsRow(r, row) ==
  /\ r.name = row.Name /\ r.email = row.Email /\ r.graduation = row.Graduation
  /\ r.company = row.Company /\ r.role = row.Role
  /\ r.calculated_duration = row.Calculated_Duration
  /\ r.total_experience = row.Total_Experience

\* C13: when a record with the mobile of row exists, after
\* update_resume(conn, row) that record has the name, email, graduation,
\* company, role, calculated_duration and total_experience of row and its
\* own mobile, and every record of another mobile is as it was.
C13_UpdateApplies ==
  [][UpdateCall =>
       LET row == calls'[Len(calls')].row
           mine == {r \in conn.resumes : r.mobile = KeyText(row)}
       IN  (row.has_created_at /\ mine # {}) =>
             /\ \E r \in conn'.resumes : r.mobile = KeyText(row) /\ HoldsRow(r, row)
             /\ \A r \in conn'.resumes : r.mobile = KeyText(row) => HoldsRow(r, row)
             /\ conn'.resumes \ {r \in conn'.resumes : r.mobile = KeyText(row)}
                  = conn.resumes \ mine]_vars

\* no two records of the table have the same mobile
OneRecordPerMobile ==
  \A r1, r2 \in conn.resumes : r1.mobile = r2.mobile => r1 = r2

\* an insert that returned False left the table as it was
RefusedInsertStep ==
  (InsertCall /\ calls'[Len(calls')].result = "False") => conn' = conn

\* the first save of the batch df into the empty table is over: calls[i]
\* is the insert of df.rows[i]
FirstSaveDone ==
  /\ pc = "done"
  /\ OnlyInserts
  /\ Len(calls) > 0
  /\ Len(calls) = Len(df.rows)

\* the values of the row are texts, numbers or null
Storable(row) ==
  \A v \in {row.Name, row.Mobile, row.Email, row.Graduation, row.Company, row.Role} :
    v.t \in {"str", "num", "null"}

\* the positions in the batch of the rows of the candidate of row i
StintsOf(i) == {j \in 1..Len(df.rows) : KeyText(df.rows[j]) = KeyText(df.rows[i])}

\* one record is stored for the candidate of row i, it is the first row of
\* the candidate, and the inserts of the other rows returned False
FirstRowStored(i) ==
  LET first == MinOf(StintsOf(i))
      mine == {r \in conn.resumes : r.mobile = KeyText(df.rows[i])}
  IN  /\ Cardinality(mine) = 1
      /\ \A r \in mine :
           /\ HoldsRow(r, df.rows[first])
           /\ r.created_at = calls[first].day
      /\ calls[first].result = "True"
      /\ \A j \in StintsOf(i) \ {first} : calls[j].result = "False"

Seen(tok) == Lower(Strip(tok))

\* the fallback is what decides tok: not empty, none of present, running,
\* current, and no format matches
FallsBack(tok) ==
  /\ tok # <<>>
  /\ Seen(tok) \notin NowWords
  /\ TryFormats(Seen(tok), 1) = NoDate

\* a word followed, after optional white space, by four digits: the word
\* is s[o[1]..o[2]] and starts where a run of word characters starts, the
\* digits are s[o[3]..o[3]+3]
WordYears(s) ==
  {o \in (1..Len(s)) \X (1..Len(s)) \X (1..Len(s)) :
     /\ o[1] <= o[2] /\ o[2] < o[3] /\ o[3] + 3 <= Len(s)
     /\ (o[1] = 1 \/ s[o[1] - 1] \notin WordChars)
     /\ \A k \in o[1]..o[2] : s[k] \in WordChars
     /\ \A k \in (o[2] + 1)..(o[3] - 1) : s[k] = Space
     /\ \A k \in o[3]..(o[3] + 3) : s[k] \in Digit}

\* the first of them
FirstWordYears(s) ==
  {o \in WordYears(s) : \A other \in WordYears(s) : o[1] <= other[1]}

\* the month of a word: its first three letters in the table jan..dec, or 1
MonthOfWord(w) ==
  LET key == SubSeq(w, 1, IF Len(w) < 3 THEN Len(w) ELSE 3)
  IN  IF \E m \in 1..12 : MonthAbbr[m] = key
      THEN CHOOSE m \in 1..12 : MonthAbbr[m] = key
      ELSE 1

\* the year four digits spell
YearOf(s, r) ==
  DigitVal(s[r]) * 1000 + DigitVal(s[r + 1]) * 100 + DigitVal(s[r + 2]) * 10
    + DigitVal(s[r + 3])

\* what a word and its year resolve to: unresolved when the year is no
\* calendar year
Resolved(s, o) ==
  IF YearOf(s, o[3]) >= 1
  THEN Date(YearOf(s, o[3]), MonthOfWord(SubSeq(s, o[1], o[2])))
  ELSE NoDate

\* the value v of a date column is what the fallback gives for tok
LenientValue(tok, v) ==
  FallsBack(tok) =>
    IF WordYears(Seen(tok)) = {} THEN v \in {NoDate, NaT}
    ELSE \E o \in FirstWordYears(Seen(tok)) : v \in StoredAs(Resolved(Seen(tok), o))

\* C12: a token that is not empty, is none of present/running/current and
\* matches no format resolves to (year, month) of the first word followed,
\* after optional white space, by four digits: the month is that of the
\* first three letters of the word in the table jan..dec, 1 when they are
\* no entry; it is unresolved when the four digits are no calendar year or
\* when there is no such word; no exception escapes.
C12_LenientFallback ==
  /\ pc # "raised"
  /\ pc = "aggregate" =>
       \A i \in 1..Len(df.rows) :
         LET x == df.rows[i].Duration
         IN  IF Positions(x.s, EnDash) # {}
             THEN /\ LenientValue(BeforeFirst(x.s, EnDash), df.rows[i].Start_Date)
                  /\ LenientValue(AfterLast(x.s, EnDash), df.rows[i].End_Date)
             ELSE Positions(x.s, Hyphen) = {} =>
                    LenientValue(x.s, df.rows[i].Start_Date)

\* C12 witness: "Sept 2019" resolved to September 2019 and "Summer 2019",
\* as the end of a range, to January 2019
C12_Witness ==
  /\ pc = "aggregate"
  /\ \/ /\ df.rows[1].Duration = Str(tSept2019)
        /\ FallsBack(tSept2019)
        /\ df.rows[1].Start_Date = Date(2019, 9)
     \/ /\ df.rows[1].Duration = Str(tFrom2018 \o tSummer2019)
        /\ FallsBack(tSummer2019)
        /\ df.rows[1].End_Date = Date(2019, 1)

====
